---- MODULE Spec2Model ----
(***************************************************************************)
(* NetBox object templates (templates/netbox.py).                          *)
(*                                                                         *)
(* A Templates object holds the configured API version; every builder is a *)
(* pure function of its arguments and that version.  The model is a caller *)
(* that constructs a Templates object, calls one operation with arguments  *)
(* drawn from bounded sets, observes its outcome (a returned mapping or a  *)
(* raised exception) and goes on to the next call.                         *)
(*                                                                         *)
(* api_version is the object's field; pc is the caller's position ("idle"  *)
(* before a call, "done" holding its outcome); op and args are the call    *)
(* made and result is what it returned or raised.                          *)
(*                                                                         *)
(* Python values are tagged records [t |-> type, v |-> payload].  Text is  *)
(* a sequence of one-character strings, so that slicing, filtering,        *)
(* replacing and case mapping are computed character by character.         *)
(***************************************************************************)
EXTENDS Integers, Sequences, FiniteSets, TLC

VARIABLES api_version, pc, op, args, result

vars == <<api_version, pc, op, args, result>>

(***************************************************************************)
(* Python values                                                           *)
(***************************************************************************)
None == [t |-> "None", v |-> 0]

Str(s) == [t |-> "str", v |-> s]

IntVal(i) == [t |-> "int", v |-> i]

Float(i) == [t |-> "float", v |-> i]

Bool(b) == [t |-> "bool", v |-> b]

List(s) == [t |-> "list", v |-> s]

Dict(f) == [t |-> "dict", v |-> f]

Raise(e) == [t |-> "raise", v |-> e]

IsNone(x) == x.t = "None"

IsRaise(x) == x.t = "raise"

\* Python truth value of an argument: None, "", 0, False and [] are false.
Truthy(x) ==
    CASE x.t = "None" -> FALSE
      [] x.t = "str" -> Len(x.v) > 0
      [] x.t = "int" -> x.v # 0
      [] x.t = "float" -> x.v # 0
      [] x.t = "bool" -> x.v
      [] x.t = "list" -> Len(x.v) > 0
      [] OTHER -> TRUE

\* isinstance(value, int): bool is a subclass of int
isinstance_int(x) == x.t \in {"int", "bool"}

\* The integer a value is as a dict key: True is 1 and False is 0.
int_key(x) == IF x.t = "bool" THEN (IF x.v THEN 1 ELSE 0) ELSE x.v

(***************************************************************************)
(* str methods used by the module                                          *)
(***************************************************************************)
ascii_uppercase == <<"A", "B", "C", "D", "E", "F", "G", "H", "I", "J", "K", "L", "M", "N", "O", "P", "Q", "R", "S", "T", "U", "V", "W", "X", "Y", "Z">>

ascii_lowercase == <<"a", "b", "c", "d", "e", "f", "g", "h", "i", "j", "k", "l", "m", "n", "o", "p", "q", "r", "s", "t", "u", "v", "w", "x", "y", "z">>

char_lower(c) ==
    IF \E i \in 1..Len(ascii_uppercase) : ascii_uppercase[i] = c
    THEN ascii_lowercase[CHOOSE i \in 1..Len(ascii_uppercase) : ascii_uppercase[i] = c]
    ELSE c

char_upper(c) ==
    IF \E i \in 1..Len(ascii_lowercase) : ascii_lowercase[i] = c
    THEN ascii_uppercase[CHOOSE i \in 1..Len(ascii_lowercase) : ascii_lowercase[i] = c]
    ELSE c

\* text.lower()
str_lower(s) == [i \in 1..Len(s) |-> char_lower(s[i])]

\* text.upper()
str_upper(s) == [i \in 1..Len(s) |-> char_upper(s[i])]

\* text.replace(old, new) for one-character old and new
str_replace(s, old, new) == [i \in 1..Len(s) |-> IF s[i] = old THEN new ELSE s[i]]

\* text[:n]
str_prefix(s, n) == SubSeq(s, 1, IF n < Len(s) THEN n ELSE Len(s))

\* text.split(sep) for a one-character sep
RECURSIVE str_split(_, _)
str_split(s, sep) ==
    IF \A i \in 1..Len(s) : s[i] # sep
    THEN <<s>>
    ELSE LET k == CHOOSE i \in 1..Len(s) :
                      s[i] = sep /\ \A j \in 1..(i - 1) : s[j] # sep
         IN  <<SubSeq(s, 1, k - 1)>> \o str_split(SubSeq(s, k + 1, Len(s)), sep)

decimal_digits == <<"0", "1", "2", "3", "4", "5", "6", "7", "8", "9">>

digit_value(c) == (CHOOSE i \in 1..Len(decimal_digits) : decimal_digits[i] = c) - 1

\* int(text) for a text of decimal digits
RECURSIVE py_int(_)
py_int(s) ==
    IF Len(s) = 0 THEN 0
    ELSE 10 * py_int(SubSeq(s, 1, Len(s) - 1)) + digit_value(s[Len(s)])

\* a > b on tuples of integers: the first differing component decides,
\* and a proper prefix is smaller than the longer tuple.
tuple_gt(a, b) ==
    LET n == IF Len(a) < Len(b) THEN Len(a) ELSE Len(b)
        D == {i \in 1..n : a[i] # b[i]}
    IN  IF D # {}
        THEN LET k == CHOOSE i \in D : \A j \in D : i <= j IN a[k] > b[k]
        ELSE Len(a) > Len(b)

(***************************************************************************)
(* Module-level helpers                                                    *)
(***************************************************************************)
\* Fault variant of remove_empty_fields: the mapping is returned as built.
remove_empty_fields_unfiltered(obj) == Dict(obj.v)

remove_empty_fields(obj) ==
    Dict([k \in {k \in DOMAIN obj.v : ~IsNone(obj.v[k])} |-> obj.v[k]])

\* Fault variant of truncate: the slice stops one character early.
truncate_one_short(text, max_len) ==
    IF text.t # "str" THEN Raise("TypeError")
    ELSE IF Len(text.v) < max_len THEN text ELSE Str(str_prefix(text.v, max_len - 1))

\* len(None) raises TypeError
truncate(text, max_len) ==
    IF text.t # "str" THEN Raise("TypeError")
    ELSE IF Len(text.v) < max_len THEN text ELSE Str(str_prefix(text.v, max_len))

allowed_chars ==
    {ascii_lowercase[i] : i \in 1..Len(ascii_lowercase)}
        \cup {ascii_uppercase[i] : i \in 1..Len(ascii_uppercase)}
        \cup {decimal_digits[i] : i \in 1..Len(decimal_digits)}
        \cup {"_", "-"}

\* Fault variant of separators: the period is not a separator.
separators_without_period == <<" ", ",">>

separators == <<" ", ",", ".">>

RECURSIVE replace_separators(_, _)
replace_separators(s, n) ==
    IF n = 0 THEN s
    ELSE str_replace(replace_separators(s, n - 1), separators[n], "-")

\* Fault variant of format_slug: the result is not lowercased.
format_slug_not_lowered(text) ==
    IF text.t # "str" THEN Raise("AttributeError")
    ELSE LET replaced == replace_separators(text.v, Len(separators))
             stripped == SelectSeq(replaced, LAMBDA c : c \in allowed_chars)
         IN  truncate(Str(stripped), 50)

\* None.replace raises AttributeError
format_slug(text) ==
    IF text.t # "str" THEN Raise("AttributeError")
    ELSE LET replaced == replace_separators(text.v, Len(separators))
             stripped == SelectSeq(replaced, LAMBDA c : c \in allowed_chars)
             cut == truncate(Str(stripped), 50)
         IN  Str(str_lower(cut.v))

\* The version is held as its text: str(v) of a text is that text, and a
\* float is written by its shortest repr ("2.6" for 2.6).
parse_version_tuple(v) ==
    LET parts == str_split(v.v, ".")
    IN  [i \in 1..Len(parts) |-> py_int(parts[i])]


(***************************************************************************)
(* class Templates                                                         *)
(***************************************************************************)
obj_map ==
    [circuits |->
        [status |-> (0 :> <<"d", "e", "p", "r", "o", "v", "i", "s", "i", "o", "n", "i", "n", "g">> @@ 1 :> <<"a", "c", "t", "i", "v", "e">> @@ 2 :> <<"p", "l", "a", "n", "n", "e", "d">>
                     @@ 3 :> <<"p", "r", "o", "v", "i", "s", "i", "o", "n", "i", "n", "g">> @@ 4 :> <<"o", "f", "f", "l", "i", "n", "e">>
                     @@ 5 :> <<"d", "e", "c", "o", "m", "i", "s", "s", "i", "o", "n", "e", "d">>)],
     devices |->
        [status |-> (0 :> <<"o", "f", "f", "l", "i", "n", "e">> @@ 1 :> <<"a", "c", "t", "i", "v", "e">> @@ 2 :> <<"p", "l", "a", "n", "n", "e", "d">>
                     @@ 3 :> <<"s", "t", "a", "g", "e", "d">> @@ 4 :> <<"f", "a", "i", "l", "e", "d">> @@ 5 :> <<"i", "n", "v", "e", "n", "t", "o", "r", "y">>
                     @@ 6 :> <<"d", "e", "c", "o", "m", "i", "s", "s", "i", "o", "n", "i", "n", "g">>)],
     interfaces |->
        [type |-> (0 :> <<"v", "i", "r", "t", "u", "a", "l">> @@ 32767 :> <<"o", "t", "h", "e", "r">>),
         mode |-> (100 :> <<"a", "c", "c", "e", "s", "s">> @@ 200 :> <<"t", "a", "g", "g", "e", "d">> @@ 300 :> <<"t", "a", "g", "g", "e", "d", "-", "a", "l", "l">>)],
     ip_addresses |->
        [role |-> (10 :> <<"l", "o", "o", "p", "b", "a", "c", "k">> @@ 20 :> <<"s", "e", "c", "o", "n", "d", "a", "r", "y">> @@ 30 :> <<"a", "n", "y", "c", "a", "s", "t">>
                   @@ 40 :> <<"v", "i", "p">> @@ 41 :> <<"v", "r", "r", "p">> @@ 42 :> <<"h", "s", "r", "p">>
                   @@ 43 :> <<"g", "l", "b", "p">> @@ 44 :> <<"c", "a", "r", "p">>),
         status |-> (1 :> <<"a", "c", "t", "i", "v", "e">> @@ 2 :> <<"r", "e", "s", "e", "r", "v", "e", "d">> @@ 3 :> <<"d", "e", "p", "r", "e", "c", "a", "t", "e", "d">>
                     @@ 5 :> <<"d", "h", "c", "p">>),
         type |-> (0 :> <<"v", "i", "r", "t", "u", "a", "l">> @@ 32767 :> <<"o", "t", "h", "e", "r">>)],
     prefixes |->
        [status |-> (0 :> <<"c", "o", "n", "t", "a", "i", "n", "e", "r">> @@ 1 :> <<"a", "c", "t", "i", "v", "e">> @@ 2 :> <<"r", "e", "s", "e", "r", "v", "e", "d">>
                     @@ 3 :> <<"d", "e", "p", "r", "e", "c", "a", "t", "e", "d">>)],
     sites |->
        [status |-> (1 :> <<"a", "c", "t", "i", "v", "e">> @@ 2 :> <<"p", "l", "a", "n", "n", "e", "d">> @@ 4 :> <<"r", "e", "t", "i", "r", "e", "d">>)],
     vlans |->
        [status |-> (1 :> <<"a", "c", "t", "i", "v", "e">> @@ 2 :> <<"r", "e", "s", "e", "r", "v", "e", "d">> @@ 3 :> <<"d", "e", "p", "r", "e", "c", "a", "t", "e", "d">>)],
     virtual_machines |->
        [status |-> (0 :> <<"o", "f", "f", "l", "i", "n", "e">> @@ 1 :> <<"a", "c", "t", "i", "v", "e">> @@ 3 :> <<"s", "t", "a", "g", "e", "d">>)]]

\* Fault variant of version_newer: >= in place of >.
version_newer_or_equal(version) ==
    parse_version_tuple(version) = parse_version_tuple(Str(<<"2", ".", "6">>))
        \/ tuple_gt(parse_version_tuple(version), parse_version_tuple(Str(<<"2", ".", "6">>)))

\* parse_version_tuple(self.api_version) > parse_version_tuple(2.6)
version_newer(version) ==
    tuple_gt(parse_version_tuple(version), parse_version_tuple(Str(<<"2", ".", "6">>)))

\* Fault variant of version_dependent: a value missing from the table is
\* passed through instead of raising.
version_dependent_lenient(version, nb_obj_type, key, value) ==
    IF isinstance_int(value) /\ version_newer(version)
          /\ int_key(value) \in DOMAIN obj_map[nb_obj_type][key]
    THEN Str(obj_map[nb_obj_type][key][int_key(value)])
    ELSE value

\* obj_map[nb_obj_type][key][value] raises KeyError for a value not in the table
version_dependent(version, nb_obj_type, key, value) ==
    IF isinstance_int(value) /\ version_newer(version)
    THEN IF int_key(value) \in DOMAIN obj_map[nb_obj_type][key]
         THEN Str(obj_map[nb_obj_type][key][int_key(value)])
         ELSE Raise("KeyError")
    ELSE value

\* A dict display {k1: e1, k2: e2, ...}: the expressions are evaluated in
\* order, and the first one that raises ends the evaluation.
dict_display(entries) ==
    LET R == {i \in 1..Len(entries) : IsRaise(entries[i][2])}
    IN  IF R # {}
        THEN entries[CHOOSE i \in R : \A j \in R : i <= j][2]
        ELSE Dict([k \in {entries[i][1] : i \in 1..Len(entries)} |->
                      entries[CHOOSE i \in 1..Len(entries) : entries[i][1] = k][2]])

\* return remove_empty_fields(obj), reached only when building obj raised nothing
return_obj(obj) == IF IsRaise(obj) THEN obj ELSE remove_empty_fields(obj)

cluster(version, a) ==
    return_obj(dict_display(<<
        <<"name", truncate(a.name, 100)>>,
        <<"type", dict_display(<< <<"name", a.cluster_type>> >>)>>,
        <<"group", IF Truthy(a.group)
                   THEN dict_display(<< <<"name", truncate(a.group, 50)>> >>)
                   ELSE None>>,
        <<"tags", a.tags>> >>))

cluster_group(version, a) ==
    return_obj(dict_display(<<
        <<"name", truncate(a.name, 50)>>,
        <<"slug", IF Truthy(a.slug) THEN a.slug ELSE format_slug(a.name)>> >>))

device(version, a) ==
    return_obj(dict_display(<<
        <<"name", a.name>>,
        <<"device_role", dict_display(<< <<"name", a.device_role>> >>)>>,
        <<"device_type", dict_display(<< <<"model", a.device_type>> >>)>>,
        <<"display_name", a.display_name>>,
        <<"platform", IF Truthy(a.platform)
                      THEN dict_display(<< <<"name", a.platform>> >>) ELSE None>>,
        <<"site", IF Truthy(a.site)
                  THEN dict_display(<< <<"name", a.site>> >>) ELSE None>>,
        <<"serial", IF Truthy(a.serial) THEN truncate(a.serial, 50) ELSE None>>,
        <<"asset_tag", IF Truthy(a.asset_tag) THEN truncate(a.asset_tag, 50) ELSE None>>,
        <<"cluster", IF Truthy(a.cluster)
                     THEN dict_display(<< <<"name", truncate(a.cluster, 100)>> >>)
                     ELSE None>>,
        <<"status", version_dependent(version, "devices", "status", a.status)>>,
        <<"tags", a.tags>> >>))

device_interface(version, a) ==
    return_obj(dict_display(<<
        <<"device", dict_display(<< <<"name", a.device>> >>)>>,
        <<"name", a.name>>,
        <<"type", IF ~IsNone(a.iftype)
                  THEN version_dependent(version, "interfaces", "type", a.iftype)
                  ELSE None>>,
        <<"enabled", a.enabled>>,
        <<"mtu", a.mtu>>,
        <<"mac_address", IF Truthy(a.mac_address)
                         THEN Str(str_upper(a.mac_address.v)) ELSE None>>,
        <<"mgmt_only", a.mgmt_only>>,
        <<"description", a.description>>,
        <<"cable", a.cable>>,
        <<"mode", a.mode>>,
        <<"untagged_vlan", a.untagged_vlan>>,
        <<"tagged_vlans", a.tagged_vlans>>,
        <<"tags", a.tags>> >>))

device_type(version, a) ==
    return_obj(dict_display(<<
        <<"manufacturer", dict_display(<< <<"name", a.manufacturer>> >>)>>,
        <<"model", truncate(a.model, 50)>>,
        <<"slug", IF Truthy(a.slug) THEN a.slug ELSE format_slug(a.model)>>,
        <<"part_number", IF Truthy(a.part_number)
                         THEN truncate(a.part_number, 50) ELSE None>>,
        <<"tags", a.tags>> >>))

\* Fault variant of both_parents: or in place of and.
either_parent(dev, vm) == Truthy(dev) \/ Truthy(vm)

\* bool(device and virtual_machine)
both_parents(dev, vm) == Truthy(dev) /\ Truthy(vm)

\* Fault variant of assigned_object: the interface name is not required.
assigned_object_without_interface_test(interface, dev, vm) ==
    IF Truthy(dev) \/ Truthy(vm)
    THEN IF Truthy(dev)
         THEN "assigned_object_type" :> Str(<<"d", "c", "i", "m", ".", "i", "n", "t", "e", "r", "f", "a", "c", "e">>)
              @@ "assigned_object" :>
                    Dict("name" :> interface @@ "device" :> Dict("name" :> dev))
         ELSE "assigned_object_type" :> Str(<<"v", "i", "r", "t", "u", "a", "l", "i", "z", "a", "t", "i", "o", "n", ".", "v", "m", "i", "n", "t", "e", "r", "f", "a", "c", "e">>)
              @@ "assigned_object" :>
                    Dict("name" :> interface
                         @@ "virtual_machine" :> Dict("name" :> truncate(vm, 64)))
    ELSE [k \in {} |-> None]

\* The keys added to obj after the dict display (empty when nothing is added).
assigned_object(interface, dev, vm) ==
    IF Truthy(interface) /\ (Truthy(dev) \/ Truthy(vm))
    THEN IF Truthy(dev)
         THEN "assigned_object_type" :> Str(<<"d", "c", "i", "m", ".", "i", "n", "t", "e", "r", "f", "a", "c", "e">>)
              @@ "assigned_object" :>
                    Dict("name" :> interface @@ "device" :> Dict("name" :> dev))
         ELSE "assigned_object_type" :> Str(<<"v", "i", "r", "t", "u", "a", "l", "i", "z", "a", "t", "i", "o", "n", ".", "v", "m", "i", "n", "t", "e", "r", "f", "a", "c", "e">>)
              @@ "assigned_object" :>
                    Dict("name" :> interface
                         @@ "virtual_machine" :> Dict("name" :> truncate(vm, 64)))
    ELSE [k \in {} |-> None]

ip_address(version, a) ==
    IF both_parents(a.device, a.virtual_machine)
    THEN Raise("ValueError")
    ELSE LET obj == dict_display(<<
                 <<"address", a.address>>,
                 <<"description", a.description>>,
                 <<"dns_name", a.dns_name>>,
                 <<"status", version_dependent(version, "ip_addresses", "status", a.status)>>,
                 <<"tags", a.tags>>,
                 <<"tenant", a.tenant>>,
                 <<"vrf", a.vrf>> >>)
         IN  IF IsRaise(obj) THEN obj
             ELSE remove_empty_fields(
                      Dict(assigned_object(a.interface, a.device, a.virtual_machine)
                           @@ obj.v))

manufacturer(version, a) ==
    return_obj(dict_display(<<
        <<"name", truncate(a.name, 50)>>,
        <<"slug", IF Truthy(a.slug) THEN a.slug ELSE format_slug(a.name)>> >>))

\* float(None) raises TypeError
py_float(x) ==
    IF x.t \in {"int", "float"} THEN Float(x.v) ELSE Raise("TypeError")

virtual_machine(version, a) ==
    return_obj(dict_display(<<
        <<"name", a.name>>,
        <<"cluster", dict_display(<< <<"name", a.cluster>> >>)>>,
        <<"status", version_dependent(version, "virtual_machines", "status", a.status)>>,
        <<"role", IF Truthy(a.role)
                  THEN dict_display(<< <<"name", a.role>> >>) ELSE None>>,
        <<"tenant", IF Truthy(a.tenant)
                    THEN dict_display(<< <<"name", a.tenant>> >>) ELSE None>>,
        <<"platform", a.platform>>,
        <<"primary_ip4", a.primary_ip4>>,
        <<"primary_ip6", a.primary_ip6>>,
        <<"vcpus", py_float(a.vcpus)>>,
        <<"memory", a.memory>>,
        <<"disk", a.disk>>,
        <<"comments", a.comments>>,
        <<"local_context_data", a.local_context_data>>,
        <<"tags", a.tags>> >>))

vm_interface(version, a) ==
    return_obj(dict_display(<<
        <<"virtual_machine",
          dict_display(<< <<"name", truncate(a.virtual_machine, 64)>> >>)>>,
        <<"name", a.name>>,
        <<"enabled", a.enabled>>,
        <<"mtu", a.mtu>>,
        <<"mac_address", IF Truthy(a.mac_address)
                         THEN Str(str_upper(a.mac_address.v)) ELSE None>>,
        <<"description", a.description>>,
        <<"mode", a.mode>>,
        <<"untagged_vlan", a.untagged_vlan>>,
        <<"tagged_vlans", a.tagged_vlans>>,
        <<"tags", a.tags>> >>))


(***************************************************************************)
(* Inputs                                                                  *)
(***************************************************************************)
\* How far below and above each declared maximum length the texts reach.
MaxOver == 2

\* Integer status codes 0..MaxStatus are tried (the tables end at 6).
MaxStatus == 7

\* The maximum lengths the builders pass to truncate.
Limits == {50, 64, 100}

\* Letters of both cases, the three separators, a character outside the
\* slug alphabet, underscore, dash and a digit.
Pattern == <<"A", "b", " ", ",", ".", "!", "_", "-", "9", "Z">>

LongText(n) == [i \in 1..n |-> Pattern[((i - 1) % Len(Pattern)) + 1]]

TextLens ==
    {n \in 0..(100 + MaxOver) :
        \E m \in Limits : n >= m - MaxOver /\ n <= m + MaxOver}

Texts ==
    {LongText(n) : n \in TextLens}
        \cup {<<>>, <<"M", "y", " ", "S", "i", "t", "e", ",", " ", "I", "n", "c", ".">>, <<"L", "a", "b", " ", "C", "l", "u", "s", "t", "e", "r">>, <<"v", "m", "1">>}

Versions ==
    {Str(<<"1", ".", "9">>), Str(<<"2", ".", "6">>), Str(<<"2", ".", "6", ".", "1">>), Str(<<"2", ".", "7">>), Str(<<"2", ".", "1", "0", ".", "3">>), Str(<<"3", ".", "0">>)}

Opt(x) == {None, x}

Tags == List(<<Dict("name" :> Str(<<"v", "c", "e", "n", "t", "e", "r">>))>>)

StatusValues ==
    {None, Str(<<"a", "c", "t", "i", "v", "e">>), IntVal(32767)} \cup {IntVal(i) : i \in 0..MaxStatus}

ClusterDefaults ==
    [name |-> Str(<<"c", "1">>), cluster_type |-> Str(<<"V", "M", "w", "a", "r", "e", " ", "E", "S", "X", "i">>), group |-> None,
     tags |-> None]

ClusterArgs ==
    [name : Opt(Str(<<"c", "1">>)), cluster_type : Opt(Str(<<"V", "M", "w", "a", "r", "e", " ", "E", "S", "X", "i">>)),
     group : Opt(Str(<<"d", "c", "1">>)), tags : Opt(Tags)]
        \cup {[ClusterDefaults EXCEPT !.name = Str(t)] : t \in Texts}
        \cup {[ClusterDefaults EXCEPT !.group = Str(t)] : t \in Texts}

ClusterGroupDefaults == [name |-> Str(<<"d", "c", "1">>), slug |-> None]

SlugArgs ==
    [name : Opt(Str(<<"d", "c", "1">>)), slug : Opt(Str(<<"m", "y", "-", "s", "l", "u", "g">>))]
        \cup [name : {Str(t) : t \in Texts}, slug : {None, Str(<<>>), Str(<<"m", "y", "-", "s", "l", "u", "g">>)}]

DeviceDefaults ==
    [name |-> Str(<<"r", "1">>), device_role |-> Str(<<"S", "e", "r", "v", "e", "r">>), device_type |-> Str(<<"R", "7", "4", "0">>),
     display_name |-> None, platform |-> None, site |-> None, serial |-> None,
     asset_tag |-> None, cluster |-> None, status |-> None, tags |-> None]

DeviceArgs ==
    [name : Opt(Str(<<"r", "1">>)), device_role : Opt(Str(<<"S", "e", "r", "v", "e", "r">>)),
     device_type : Opt(Str(<<"R", "7", "4", "0">>)), display_name : Opt(Str(<<"R", "a", "c", "k", " ", "1">>)),
     platform : Opt(Str(<<"E", "S", "X", "i">>)), site : Opt(Str(<<"H", "Q">>)), serial : Opt(Str(<<"S", "N", "1">>)),
     asset_tag : Opt(Str(<<"A", "1">>)), cluster : Opt(Str(<<"c", "1">>)), status : Opt(IntVal(1)),
     tags : Opt(Tags)]
        \cup {[DeviceDefaults EXCEPT !.serial = Str(t)] : t \in Texts}
        \cup {[DeviceDefaults EXCEPT !.asset_tag = Str(t)] : t \in Texts}
        \cup {[DeviceDefaults EXCEPT !.cluster = Str(t)] : t \in Texts}
        \cup {[DeviceDefaults EXCEPT !.status = st] : st \in StatusValues}

DeviceInterfaceDefaults ==
    [device |-> Str(<<"r", "1">>), name |-> Str(<<"e", "t", "h", "0">>), iftype |-> None, enabled |-> None,
     mtu |-> None, mac_address |-> None, mgmt_only |-> None, description |-> None,
     cable |-> None, mode |-> None, untagged_vlan |-> None, tagged_vlans |-> None,
     tags |-> None]

DeviceInterfaceArgs ==
    [device : Opt(Str(<<"r", "1">>)), name : Opt(Str(<<"e", "t", "h", "0">>)), iftype : Opt(IntVal(0)),
     enabled : Opt(Bool(TRUE)), mtu : Opt(IntVal(1500)),
     mac_address : Opt(Str(<<"a", "a", ":", "b", "b", ":", "c", "c", ":", "d", "d", ":", "e", "e", ":", "f", "f">>)), mgmt_only : Opt(Bool(FALSE)),
     description : Opt(Str(<<"u", "p", "l", "i", "n", "k">>)), cable : Opt(IntVal(3)), mode : Opt(IntVal(100)),
     untagged_vlan : Opt(IntVal(10)), tagged_vlans : Opt(List(<<IntVal(20)>>)),
     tags : Opt(Tags)]
        \cup {[DeviceInterfaceDefaults EXCEPT !.iftype = st] : st \in StatusValues}
        \cup {[DeviceInterfaceDefaults EXCEPT !.mac_address = Str(t)] : t \in Texts}

DeviceTypeDefaults ==
    [manufacturer |-> Str(<<"D", "e", "l", "l">>), model |-> Str(<<"R", "7", "4", "0">>), slug |-> None,
     part_number |-> None, tags |-> None]

DeviceTypeArgs ==
    [manufacturer : Opt(Str(<<"D", "e", "l", "l">>)), model : Opt(Str(<<"R", "7", "4", "0">>)),
     slug : Opt(Str(<<"m", "y", "-", "s", "l", "u", "g">>)), part_number : Opt(Str(<<"P", "N", "1">>)), tags : Opt(Tags)]
        \cup {[DeviceTypeDefaults EXCEPT !.model = Str(t), !.slug = sl] :
                 t \in Texts, sl \in {None, Str(<<>>), Str(<<"m", "y", "-", "s", "l", "u", "g">>)}}
        \cup {[DeviceTypeDefaults EXCEPT !.part_number = Str(t)] : t \in Texts}

\* status defaults to 1
IpAddressDefaults ==
    [address |-> Str(<<"1", "0", ".", "0", ".", "0", ".", "1", "/", "2", "4">>), description |-> None, device |-> None,
     dns_name |-> None, interface |-> None, status |-> IntVal(1), tags |-> None,
     tenant |-> None, virtual_machine |-> None, vrf |-> None]

IpAddressArgs ==
    [address : Opt(Str(<<"1", "0", ".", "0", ".", "0", ".", "1", "/", "2", "4">>)), description : Opt(Str(<<"m", "g", "m", "t">>)),
     device : Opt(Str(<<"r", "1">>)), dns_name : Opt(Str(<<"r", "1", ".", "l", "a", "b">>)),
     interface : Opt(Str(<<"e", "t", "h", "0">>)), status : Opt(IntVal(1)), tags : Opt(Tags),
     tenant : Opt(Str(<<"O", "p", "s">>)), virtual_machine : Opt(Str(<<"v", "m", "1">>)),
     vrf : Opt(Str(<<"b", "l", "u", "e">>))]
        \cup {[IpAddressDefaults EXCEPT !.device = d, !.virtual_machine = vm,
                                        !.interface = i, !.status = st] :
                 d \in {None, Str(<<>>), Str(<<"r", "1">>)},
                 vm \in {None} \cup {Str(t) : t \in Texts},
                 i \in {None, Str(<<>>), Str(<<"e", "t", "h", "0">>)},
                 st \in StatusValues}

VirtualMachineDefaults ==
    [name |-> Str(<<"v", "m", "1">>), cluster |-> Str(<<"c", "1">>), status |-> None, role |-> None,
     tenant |-> None, platform |-> None, primary_ip4 |-> None, primary_ip6 |-> None,
     vcpus |-> None, memory |-> None, disk |-> None, comments |-> None,
     local_context_data |-> None, tags |-> None]

VirtualMachineArgs ==
    [name : Opt(Str(<<"v", "m", "1">>)), cluster : Opt(Str(<<"c", "1">>)), status : Opt(IntVal(1)),
     role : Opt(Str(<<"S", "e", "r", "v", "e", "r">>)), tenant : Opt(Str(<<"O", "p", "s">>)), platform : Opt(Str(<<"L", "i", "n", "u", "x">>)),
     primary_ip4 : Opt(IntVal(11)), primary_ip6 : Opt(IntVal(12)), vcpus : Opt(IntVal(2)),
     memory : Opt(IntVal(4096)), disk : Opt(IntVal(40)), comments : Opt(Str(<<"n", "o", "t", "e">>)),
     local_context_data : Opt(Dict("k" :> Str(<<"v">>))), tags : Opt(Tags)]
        \cup {[VirtualMachineDefaults EXCEPT !.status = st, !.vcpus = n] :
                 st \in StatusValues, n \in Opt(IntVal(2))}

\* iftype defaults to 0
VmInterfaceDefaults ==
    [virtual_machine |-> Str(<<"v", "m", "1">>), name |-> Str(<<"e", "t", "h", "0">>), iftype |-> IntVal(0),
     enabled |-> None, mtu |-> None, mac_address |-> None, description |-> None,
     mode |-> None, untagged_vlan |-> None, tagged_vlans |-> None, tags |-> None]

VmInterfaceArgs ==
    [virtual_machine : Opt(Str(<<"v", "m", "1">>)), name : Opt(Str(<<"e", "t", "h", "0">>)),
     iftype : Opt(IntVal(0)), enabled : Opt(Bool(TRUE)), mtu : Opt(IntVal(1500)),
     mac_address : Opt(Str(<<"a", "a", ":", "b", "b", ":", "c", "c", ":", "d", "d", ":", "e", "e", ":", "f", "f">>)), description : Opt(Str(<<"u", "p", "l", "i", "n", "k">>)),
     mode : Opt(IntVal(100)), untagged_vlan : Opt(IntVal(10)),
     tagged_vlans : Opt(List(<<IntVal(20)>>)), tags : Opt(Tags)]
        \cup {[VmInterfaceDefaults EXCEPT !.virtual_machine = Str(t)] : t \in Texts}

\* Every (object kind, field kind) of the table, with integers in and out of it.
TableKeys == UNION {{<<o, k>> : k \in DOMAIN obj_map[o]} : o \in DOMAIN obj_map}

TableInts == UNION {DOMAIN obj_map[p[1]][p[2]] : p \in TableKeys}

VersionDependentArgs ==
    {[nb_obj_type |-> p[1], key |-> p[2], value |-> val] :
        p \in TableKeys,
        val \in StatusValues \cup {IntVal(i) : i \in TableInts} \cup {Bool(TRUE)}}

FormatSlugArgs == {[text |-> x] : x \in {None} \cup {Str(t) : t \in Texts}}

TruncateArgs ==
    {[text |-> x, max_len |-> m] : x \in {None} \cup {Str(t) : t \in Texts}, m \in Limits}

(***************************************************************************)
(* The caller                                                              *)
(***************************************************************************)
NoArgs == [k \in {} |-> None]

\* Templates(api_version)
Init ==
    /\ api_version \in Versions
    /\ pc = "idle"
    /\ op = "none"
    /\ args = NoArgs
    /\ result = None

\* One call: the operation runs to its return or to the exception it raises.
Call(name, a, r) ==
    /\ pc' = "done"
    /\ op' = name
    /\ args' = a
    /\ result' = r
    /\ UNCHANGED api_version

CallCluster ==
    /\ pc = "idle"
    /\ \E a \in ClusterArgs : Call("cluster", a, cluster(api_version, a))

CallClusterGroup ==
    /\ pc = "idle"
    /\ \E a \in SlugArgs : Call("cluster_group", a, cluster_group(api_version, a))

CallDevice ==
    /\ pc = "idle"
    /\ \E a \in DeviceArgs : Call("device", a, device(api_version, a))

CallDeviceInterface ==
    /\ pc = "idle"
    /\ \E a \in DeviceInterfaceArgs :
        Call("device_interface", a, device_interface(api_version, a))

CallDeviceType ==
    /\ pc = "idle"
    /\ \E a \in DeviceTypeArgs : Call("device_type", a, device_type(api_version, a))

CallIpAddress ==
    /\ pc = "idle"
    /\ \E a \in IpAddressArgs : Call("ip_address", a, ip_address(api_version, a))

CallManufacturer ==
    /\ pc = "idle"
    /\ \E a \in SlugArgs : Call("manufacturer", a, manufacturer(api_version, a))

CallVirtualMachine ==
    /\ pc = "idle"
    /\ \E a \in VirtualMachineArgs :
        Call("virtual_machine", a, virtual_machine(api_version, a))

CallVmInterface ==
    /\ pc = "idle"
    /\ \E a \in VmInterfaceArgs : Call("vm_interface", a, vm_interface(api_version, a))

CallVersionDependent ==
    /\ pc = "idle"
    /\ \E a \in VersionDependentArgs :
        Call("_version_dependent", a,
             version_dependent(api_version, a.nb_obj_type, a.key, a.value))

CallFormatSlug ==
    /\ pc = "idle"
    /\ \E a \in FormatSlugArgs : Call("format_slug", a, format_slug(a.text))

CallTruncate ==
    /\ pc = "idle"
    /\ \E a \in TruncateArgs : Call("truncate", a, truncate(a.text, a.max_len))

\* The caller takes the outcome; the next call starts from nothing, since
\* no operation keeps state.
Return ==
    /\ pc = "done"
    /\ pc' = "idle"
    /\ op' = "none"
    /\ args' = NoArgs
    /\ result' = None
    /\ UNCHANGED api_version

Next ==
    \/ CallCluster
    \/ CallClusterGroup
    \/ CallDevice
    \/ CallDeviceInterface
    \/ CallDeviceType
    \/ CallIpAddress
    \/ CallManufacturer
    \/ CallVirtualMachine
    \/ CallVmInterface
    \/ CallVersionDependent
    \/ CallFormatSlug
    \/ CallTruncate
    \/ Return

Spec == Init /\ [][Next]_vars

Builders ==
    {"cluster", "cluster_group", "device", "device_interface", "device_type",
     "ip_address", "manufacturer", "virtual_machine", "vm_interface"}

(***************************************************************************)
(* Properties                                                              *)
(***************************************************************************)
\* The versions of Versions written out by hand on each side of (2, 6).
NewerVersions == {Str(<<"2", ".", "6", ".", "1">>), Str(<<"2", ".", "7">>), Str(<<"2", ".", "1", "0", ".", "3">>), Str(<<"3", ".", "0">>)}

OlderVersions == {Str(<<"1", ".", "9">>), Str(<<"2", ".", "6">>)}

\* C1: whatever arguments a builder is given (each supplied or None), a
\* mapping it returns has no key whose value is None.
C1_NoNullValues ==
    (pc = "done" /\ op \in Builders /\ result.t = "dict")
        => \A k \in DOMAIN result.v : ~IsNone(result.v[k])

\* A device call with serial omitted and site supplied has returned.
C1_Witness ==
    /\ pc = "done" /\ op = "device" /\ result.t = "dict"
    /\ IsNone(args.serial) /\ "serial" \notin DOMAIN result.v
    /\ ~IsNone(args.site) /\ "site" \in DOMAIN result.v

\* C2: ip_address raises ValueError exactly when both a non-empty device
\* and a non-empty virtual machine are supplied, whatever the other
\* arguments are; with at most one of them it never raises ValueError.
C2_BothParentsRejected ==
    (pc = "done" /\ op = "ip_address")
        => ((Truthy(args.device) /\ Truthy(args.virtual_machine))
               <=> (result.t = "raise" /\ result.v = "ValueError"))

\* ip_address was called with both parents and a status outside the table.
C2_Witness ==
    /\ pc = "done" /\ op = "ip_address"
    /\ Truthy(args.device) /\ Truthy(args.virtual_machine)
    /\ args.status = IntVal(0)
    /\ result = Raise("ValueError")

\* C3: the translation helper returns the table's symbolic string for an
\* integer in the table when the version is above (2, 6), the raw value
\* unchanged when the version is at or below (2, 6), and a text unchanged
\* under every version; devices.status 1 gives "active" under 2.7 and
\* 2.10.3 and 1 under 2.6.
C3_VersionTranslation ==
    (pc = "done" /\ op = "_version_dependent")
        => LET tbl == obj_map[args.nb_obj_type][args.key]
               devices_status_1 ==
                   /\ args.nb_obj_type = "devices"
                   /\ args.key = "status"
                   /\ args.value = IntVal(1)
           IN  /\ (api_version \in NewerVersions /\ args.value.t = "int"
                      /\ args.value.v \in DOMAIN tbl)
                     => result = Str(tbl[args.value.v])
               /\ api_version \in OlderVersions => result = args.value
               /\ args.value.t = "str" => result = args.value
               /\ (devices_status_1 /\ api_version \in {Str(<<"2", ".", "7">>), Str(<<"2", ".", "1", "0", ".", "3">>)})
                     => result = Str(<<"a", "c", "t", "i", "v", "e">>)
               /\ (devices_status_1 /\ api_version = Str(<<"2", ".", "6">>))
                     => result = IntVal(1)

\* The helper translated devices.status 1 under version 2.10.3.
C3_Witness ==
    /\ pc = "done" /\ op = "_version_dependent"
    /\ api_version = Str(<<"2", ".", "1", "0", ".", "3">>)
    /\ args.nb_obj_type = "devices" /\ args.key = "status" /\ args.value = IntVal(1)
    /\ result = Str(<<"a", "c", "t", "i", "v", "e">>)

C5_RequiredOnlyReturns ==
    (pc = "done" /\ op \in Builders)
        => LET defaults ==
                   CASE op = "cluster" -> ClusterDefaults
                     [] op = "cluster_group" -> ClusterGroupDefaults
                     [] op = "device" -> DeviceDefaults
                     [] op = "device_interface" -> DeviceInterfaceDefaults
                     [] op = "device_type" -> DeviceTypeDefaults
                     [] op = "ip_address" -> IpAddressDefaults
                     [] op = "manufacturer" -> ClusterGroupDefaults
                     [] op = "virtual_machine" -> VirtualMachineDefaults
                     [] op = "vm_interface" -> VmInterfaceDefaults
           IN  args = defaults => result.t = "dict"

\* C6: in a returned mapping every field that refers to another named
\* entity is a one-key mapping {"name": value} ({"model": value} for a
\* device-type reference), never a bare string.
C6_ReferencesAreNested ==
    (pc = "done" /\ op \in Builders /\ result.t = "dict")
        => LET IsRef(x, key) == x.t = "dict" /\ DOMAIN x.v = {key}
               name_refs ==
                   CASE op = "cluster" -> {"type", "group"}
                     [] op = "device" -> {"device_role", "platform", "site", "cluster"}
                     [] op = "device_interface" -> {"device"}
                     [] op = "device_type" -> {"manufacturer"}
                     [] op = "ip_address" -> {"tenant", "vrf"}
                     [] op = "virtual_machine" -> {"cluster", "role", "tenant", "platform"}
                     [] op = "vm_interface" -> {"virtual_machine"}
                     [] OTHER -> {}
               parent_refs ==
                   IF op = "ip_address" /\ "assigned_object" \in DOMAIN result.v
                   THEN DOMAIN result.v["assigned_object"].v \ {"name"}
                   ELSE {}
           IN  /\ \A k \in name_refs \cap DOMAIN result.v : IsRef(result.v[k], "name")
               /\ (op = "device" /\ "device_type" \in DOMAIN result.v)
                     => IsRef(result.v["device_type"], "model")
               /\ \A k \in parent_refs :
                     IsRef(result.v["assigned_object"].v[k], "name")

\* C7 as stated: format_slug("My Site, Inc.") returns "my-site--inc".
C7_SlugWithoutTrailingDash ==
    (pc = "done" /\ op = "format_slug" /\ args.text = Str(<<"M", "y", " ", "S", "i", "t", "e", ",", " ", "I", "n", "c", ".">>))
        => result = Str(<<"m", "y", "-", "s", "i", "t", "e", "-", "-", "i", "n", "c">>)

\* C7 amended: format_slug("My Site, Inc.") returns "my-site--inc-": the
\* final period becomes a dash like every other separator.
C7_SlugOfMySiteInc ==
    (pc = "done" /\ op = "format_slug" /\ args.text = Str(<<"M", "y", " ", "S", "i", "t", "e", ",", " ", "I", "n", "c", ".">>))
        => result = Str(<<"m", "y", "-", "s", "i", "t", "e", "-", "-", "i", "n", "c", "-">>)

\* format_slug has been applied to "My Site, Inc.".
C7_Witness ==
    /\ pc = "done" /\ op = "format_slug" /\ args.text = Str(<<"M", "y", " ", "S", "i", "t", "e", ",", " ", "I", "n", "c", ".">>)
    /\ result.t = "str"

\* C8: cluster_group, manufacturer and device_type called without an
\* explicit slug derive it from the name (the model for a device type):
\* space, comma and period become a dash, characters outside
\* [A-Za-z0-9_-] are removed, the first 50 characters are kept and
\* lowercased.  The slug has at most 50 characters, all of them lowercase
\* letters, digits, underscore or dash, and cluster_group("Lab Cluster")
\* is {"name": "Lab Cluster", "slug": "lab-cluster"}.
C8_DerivedSlug ==
    (pc = "done" /\ op \in {"cluster_group", "manufacturer", "device_type"}
        /\ result.t = "dict" /\ ~Truthy(args.slug))
        => LET src == IF op = "device_type" THEN args.model.v ELSE args.name.v
               slug == result.v["slug"]
               lowers == <<"a", "b", "c", "d", "e", "f", "g", "h", "i", "j", "k", "l", "m", "n", "o", "p", "q", "r", "s", "t", "u", "v", "w", "x", "y", "z">>
               uppers == <<"A", "B", "C", "D", "E", "F", "G", "H", "I", "J", "K", "L", "M", "N", "O", "P", "Q", "R", "S", "T", "U", "V", "W", "X", "Y", "Z">>
               others == <<"0", "1", "2", "3", "4", "5", "6", "7", "8", "9", "_", "-">>
               Chars(q) == {q[i] : i \in 1..Len(q)}
               dashed == [i \in 1..Len(src) |->
                             IF src[i] \in {" ", ",", "."} THEN "-" ELSE src[i]]
               kept == SelectSeq(dashed,
                           LAMBDA c : c \in Chars(lowers) \cup Chars(uppers) \cup Chars(others))
               first50 == SubSeq(kept, 1, IF Len(kept) < 50 THEN Len(kept) ELSE 50)
               Lowered(c) ==
                   IF c \in Chars(uppers)
                   THEN lowers[CHOOSE i \in 1..26 : uppers[i] = c]
                   ELSE c
           IN  /\ "slug" \in DOMAIN result.v
               /\ slug.t = "str"
               /\ Len(slug.v) <= 50
               /\ \A i \in 1..Len(slug.v) : slug.v[i] \in Chars(lowers) \cup Chars(others)
               /\ slug.v = [i \in 1..Len(first50) |-> Lowered(first50[i])]
               /\ (op = "cluster_group" /\ args.name = Str(<<"L", "a", "b", " ", "C", "l", "u", "s", "t", "e", "r">>))
                     => result = Dict("name" :> Str(<<"L", "a", "b", " ", "C", "l", "u", "s", "t", "e", "r">>)
                                      @@ "slug" :> Str(<<"l", "a", "b", "-", "c", "l", "u", "s", "t", "e", "r">>))

\* manufacturer derived a 50-character slug from a name of more than 100
\* characters that holds capitals, separators and a disallowed character.
C8_Witness ==
    /\ pc = "done" /\ op = "manufacturer" /\ result.t = "dict"
    /\ IsNone(args.slug)
    /\ Len(args.name.v) > 100
    /\ Len(result.v["slug"].v) = 50

\* C9: each length-limited field (cluster name 100 and group 50,
\* cluster-group name 50, device serial 50, asset tag 50 and cluster 100,
\* device-type model 50 and part number 50, manufacturer name 50,
\* VM-interface parent virtual machine 64) supplied as a non-empty text of
\* length n appears in the output as its first min(n, limit) characters;
\* the key is present, and a call that supplies only the required
\* arguments and that field is not refused.
C9_TruncatedToLimit ==
    pc = "done"
        => LET limited ==
                   {<<"cluster", "name", 100, FALSE>>, <<"cluster", "group", 50, TRUE>>,
                    <<"cluster_group", "name", 50, FALSE>>,
                    <<"device", "serial", 50, FALSE>>,
                    <<"device", "asset_tag", 50, FALSE>>,
                    <<"device", "cluster", 100, TRUE>>,
                    <<"device_type", "model", 50, FALSE>>,
                    <<"device_type", "part_number", 50, FALSE>>,
                    <<"manufacturer", "name", 50, FALSE>>,
                    <<"vm_interface", "virtual_machine", 64, TRUE>>}
               defaults ==
                   CASE op = "cluster" -> ClusterDefaults
                     [] op = "cluster_group" -> ClusterGroupDefaults
                     [] op = "device" -> DeviceDefaults
                     [] op = "device_type" -> DeviceTypeDefaults
                     [] op = "manufacturer" -> ClusterGroupDefaults
                     [] op = "vm_interface" -> VmInterfaceDefaults
               IsCut(out, in, m) ==
                   /\ out.t = "str"
                   /\ Len(out.v) = (IF Len(in.v) < m THEN Len(in.v) ELSE m)
                   /\ \A i \in 1..Len(out.v) : out.v[i] = in.v[i]
           IN  \A f \in limited :
                   (op = f[1] /\ args[f[2]].t = "str" /\ Len(args[f[2]].v) > 0)
                       => /\ args = [defaults EXCEPT ![f[2]] = args[f[2]]]
                                => result.t = "dict"
                          /\ result.t = "dict"
                                => /\ f[2] \in DOMAIN result.v
                                   /\ IF f[4]
                                      THEN /\ result.v[f[2]].t = "dict"
                                           /\ DOMAIN result.v[f[2]].v = {"name"}
                                           /\ IsCut(result.v[f[2]].v["name"], args[f[2]], f[3])
                                      ELSE IsCut(result.v[f[2]], args[f[2]], f[3])

\* device cut a cluster name of more than 100 characters to exactly 100.
C9_Witness ==
    /\ pc = "done" /\ op = "device" /\ result.t = "dict"
    /\ args.cluster.t = "str"
    /\ Len(args.cluster.v) > 100
    /\ Len(result.v["cluster"].v["name"].v) = 100

\* C10: in a mapping returned by ip_address, assigned_object and
\* assigned_object_type are both present or both absent, and present
\* exactly when a non-empty interface and exactly one non-empty parent were
\* supplied.  With a device parent the type is "dcim.interface" and
\* assigned_object holds the interface name and a device reference only;
\* with a virtual-machine parent the type is "virtualization.vminterface"
\* and assigned_object holds the interface name and a virtual_machine
\* reference only; it never holds both references.
C10_AssignedObject ==
    (pc = "done" /\ op = "ip_address" /\ result.t = "dict")
        => LET has == "assigned_object" \in DOMAIN result.v
               has_type == "assigned_object_type" \in DOMAIN result.v
               d == Truthy(args.device)
               vm == Truthy(args.virtual_machine)
               ao == result.v["assigned_object"]
               ao_type == result.v["assigned_object_type"]
           IN  /\ has <=> has_type
               /\ has <=> (Truthy(args.interface) /\ ((d /\ ~vm) \/ (vm /\ ~d)))
               /\ has => /\ ao.t = "dict"
                         /\ ao.v["name"] = args.interface
                         /\ ~({"device", "virtual_machine"} \subseteq DOMAIN ao.v)
               /\ (has /\ d)
                     => /\ ao_type = Str(<<"d", "c", "i", "m", ".", "i", "n", "t", "e", "r", "f", "a", "c", "e">>)
                        /\ DOMAIN ao.v = {"name", "device"}
                        /\ ao.v["device"] = Dict("name" :> args.device)
               /\ (has /\ vm)
                     => /\ ao_type = Str(<<"v", "i", "r", "t", "u", "a", "l", "i", "z", "a", "t", "i", "o", "n", ".", "v", "m", "i", "n", "t", "e", "r", "f", "a", "c", "e">>)
                        /\ DOMAIN ao.v = {"name", "virtual_machine"}
                        /\ ao.v["virtual_machine"].t = "dict"
                        /\ DOMAIN ao.v["virtual_machine"].v = {"name"}
                        /\ ao.v["virtual_machine"].v["name"].t = "str"
                        /\ \A i \in 1..Len(ao.v["virtual_machine"].v["name"].v) :
                               ao.v["virtual_machine"].v["name"].v[i]
                                   = args.virtual_machine.v[i]

\* ip_address bound an address to an interface of a virtual machine.
C10_Witness ==
    /\ pc = "done" /\ op = "ip_address" /\ result.t = "dict"
    /\ Truthy(args.interface) /\ Truthy(args.virtual_machine)
    /\ "assigned_object" \in DOMAIN result.v
    /\ "virtual_machine" \in DOMAIN result.v["assigned_object"].v

====
